---------------------------- MODULE Spec2Model ----------------------------
(***************************************************************************)
(* A model of the codespell extension's diagnostic core:                   *)
(*   - the change detector (out/utils.js: findDifferences),                *)
(*   - the typo source adapter (out/chat.js: getTypos),                    *)
(*   - the range resolver and the lifecycle controller (the diagnostics    *)
(*     module: refreshDiagnostics, subscribeDiagnosticsToDocumentChanges). *)
(*                                                                         *)
(* A text is a sequence of one-character strings; NL is the line feed.     *)
(***************************************************************************)
EXTENDS Integers, Sequences, FiniteSets, TLC

NL == "\n"

(***************************************************************************)
(* String primitives of the host language, on sequences of characters.     *)
(***************************************************************************)

\* s.startsWith(p)
StartsWith(s, p) ==
  /\ Len(p) <= Len(s)
  /\ \A i \in 1..Len(p) : s[i] = p[i]

\* s.slice(n): s without its first n characters
Slice(s, n) == IF n >= Len(s) THEN <<>> ELSE SubSeq(s, n + 1, Len(s))

\* The least index i >= from (1-based) at which sep occurs in s, or 0.
RECURSIVE IndexOfFrom(_, _, _)
IndexOfFrom(s, sep, from) ==
  IF from + Len(sep) - 1 > Len(s) THEN 0
  ELSE IF StartsWith(Slice(s, from - 1), sep) THEN from
  ELSE IndexOfFrom(s, sep, from + 1)

\* s.split(sep) for a non-empty separator: the pieces between the
\* occurrences of sep, scanned left to right, empty pieces included.
RECURSIVE Split(_, _)
Split(s, sep) ==
  LET i == IndexOfFrom(s, sep, 1)
  IN  IF i = 0 THEN <<s>>
      ELSE <<SubSeq(s, 1, i - 1)>> \o Split(Slice(s, i + Len(sep) - 1), sep)

\* parts.join(sep)
RECURSIVE Join(_, _)
Join(parts, sep) ==
  IF parts = <<>> THEN <<>>
  ELSE IF Len(parts) = 1 THEN parts[1]
  ELSE parts[1] \o sep \o Join(Tail(parts), sep)

(***************************************************************************)
(* The line patch of the diff library, as findDifferences calls it.        *)
(***************************************************************************)

\* The file name findDifferences passes to createPatch.
PatchFileName == <<"c", "o", "d", "e">>

\* The token extractAddedLines splits on.
HeaderToken == <<"+", "+", " ">> \o PatchFileName

\* The line tokens of a text: each line with its terminator; a last line
\* that has no terminator is a token too, the empty rest is not.
RECURSIVE LineTokens(_)
LineTokens(text) ==
  IF text = <<>> THEN <<>>
  ELSE LET i == IndexOfFrom(text, <<NL>>, 1)
       IN  IF i = 0 THEN <<text>>
           ELSE <<SubSeq(text, 1, i)>> \o LineTokens(Slice(text, i))

\* A token without its terminator: the line the patch prints.
TokenLine(tok) ==
  IF tok # <<>> /\ tok[Len(tok)] = NL THEN SubSeq(tok, 1, Len(tok) - 1) ELSE tok

\* A shortest edit script turning the tokens old into the tokens new, as the
\* patch body: " " a kept line, "-" a removed one, "+" an added one.  Equal
\* heads are kept; between a removal and an addition of equal cost the
\* removal comes first.
RECURSIVE EditScript(_, _)
EditScript(old, new) ==
  IF old = <<>> THEN [i \in 1..Len(new) |-> <<"+">> \o TokenLine(new[i])]
  ELSE IF new = <<>> THEN [i \in 1..Len(old) |-> <<"-">> \o TokenLine(old[i])]
  ELSE IF Head(old) = Head(new)
       THEN <<(<<" ">> \o TokenLine(Head(old)))>> \o EditScript(Tail(old), Tail(new))
  ELSE LET rem == <<(<<"-">> \o TokenLine(Head(old)))>> \o EditScript(Tail(old), new)
           add == <<(<<"+">> \o TokenLine(Head(new)))>> \o EditScript(old, Tail(new))
       IN  IF Len(rem) <= Len(add) THEN rem ELSE add

\* The rule line of the patch header (the library prints a longer run of
\* "="; no step of extractAddedLines looks past a line's first character
\* unless that character is "+").
Rule == <<"=", "=", "=">>

\* Diff.createPatch(fileName, code1, code2): the header lines, then one hunk
\* with the edit script when the texts differ, every line ended by NL.  The
\* hunk's range line is printed as "@@", and the hunk keeps every unchanged
\* line as context; the "\ No newline at end of file" marker is left out.
\* None of these lines starts with "+".
createPatch(fileName, code1, code2) ==
  LET header == << <<"I", "n", "d", "e", "x", ":", " ">> \o fileName,
                   Rule,
                   <<"-", "-", "-", " ">> \o fileName,
                   <<"+", "+", "+", " ">> \o fileName >>
      script == EditScript(LineTokens(code1), LineTokens(code2))
      hunk   == IF code1 = code2 THEN <<>> ELSE << <<"@", "@">> >> \o script
  IN  Join(header \o hunk, <<NL>>) \o <<NL>>

(***************************************************************************)
(* out/utils.js                                                            *)
(***************************************************************************)

\* extractAddedLines without its last step, the filter of the empty blocks.
extractAddedLinesUnfiltered(diff) ==
  LET lines   == Split(diff, <<NL>>)
      plus    == SelectSeq(lines, LAMBDA line : StartsWith(line, <<"+">>))
      sliced  == [i \in 1..Len(plus) |-> Slice(plus[i], 1)]
      joined  == Join(sliced, <<NL>>)
  IN  Split(joined, HeaderToken)

extractAddedLines(diff) ==
  LET lines   == Split(diff, <<NL>>)
      plus    == SelectSeq(lines, LAMBDA line : StartsWith(line, <<"+">>))
      sliced  == [i \in 1..Len(plus) |-> Slice(plus[i], 1)]
      joined  == Join(sliced, <<NL>>)
      blocks  == Split(joined, HeaderToken)
  IN  SelectSeq(blocks, LAMBDA item : item # <<>>)

findDifferences(code1, code2) ==
  extractAddedLines(createPatch(PatchFileName, code1, code2))

(***************************************************************************)
(* The diagnostics module: the range resolver                              *)
(***************************************************************************)

CODE_SPELL_MENTION == "codespell"

\* The characters of the class \s that the model's texts may hold.
WhiteSpace == {" ", "\t", NL, "\r"}

\* The characters escapeRegExp's class [-[\]{}()*+?.,\\^$|#\s] matches.
EscapedChars ==
  {"-", "[", "]", "{", "}", "(", ")", "*", "+", "?", ".", ",", "\\", "^", "$", "|", "#"}
    \cup WhiteSpace

\* The token taken as the pattern source as it is.
escapeNothing(text) == text

\* text.replace(/[-[\]{}()*+?.,\\^$|#\s]/g, '\\$&')
RECURSIVE escapeRegExp(_)
escapeRegExp(text) ==
  IF text = <<>> THEN <<>>
  ELSE (IF Head(text) \in EscapedChars THEN <<"\\", Head(text)>> ELSE <<Head(text)>>)
         \o escapeRegExp(Tail(text))

\* new RegExp(source, 'gm'): the atoms of a pattern source.  A backslash
\* makes the next character a literal; an unescaped "." is any character
\* but a line terminator, "^" and "$" are the line anchors of the m flag;
\* every other character stands for itself.
RECURSIVE RegExpAtoms(_)
RegExpAtoms(source) ==
  IF source = <<>> THEN <<>>
  ELSE IF Head(source) = "\\" /\ Len(source) >= 2
       THEN <<[kind |-> "lit", ch |-> source[2]]>> \o RegExpAtoms(Slice(source, 2))
  ELSE IF Head(source) = "." THEN <<[kind |-> "any", ch |-> "."]>> \o RegExpAtoms(Tail(source))
  ELSE IF Head(source) = "^" THEN <<[kind |-> "bol", ch |-> "^"]>> \o RegExpAtoms(Tail(source))
  ELSE IF Head(source) = "$" THEN <<[kind |-> "eol", ch |-> "$"]>> \o RegExpAtoms(Tail(source))
  ELSE <<[kind |-> "lit", ch |-> Head(source)]>> \o RegExpAtoms(Tail(source))

\* The offset (0-based) at which a match of atoms[k..] starting at offset
\* pos of text ends, or -1 when there is none.
RECURSIVE MatchAt(_, _, _, _)
MatchAt(atoms, k, text, pos) ==
  IF k > Len(atoms) THEN pos
  ELSE LET a == atoms[k]
       IN  CASE a.kind = "lit" ->
                  IF pos < Len(text) /\ text[pos + 1] = a.ch
                  THEN MatchAt(atoms, k + 1, text, pos + 1) ELSE -1
             [] a.kind = "any" ->
                  IF pos < Len(text) /\ text[pos + 1] \notin {NL, "\r"}
                  THEN MatchAt(atoms, k + 1, text, pos + 1) ELSE -1
             [] a.kind = "bol" ->
                  IF pos = 0 \/ text[pos] \in {NL, "\r"}
                  THEN MatchAt(atoms, k + 1, text, pos) ELSE -1
             [] a.kind = "eol" ->
                  IF pos = Len(text) \/ text[pos + 1] \in {NL, "\r"}
                  THEN MatchAt(atoms, k + 1, text, pos) ELSE -1

\* The match that fails: exec(docText) returning null.
NoMatch == [index |-> -1, end |-> -1]

\* exec that looks for a match only after lastIndex, not at it.
execAfterLastIndex(atoms, text, lastIndex) ==
  LET starts == {i \in (lastIndex + 1)..Len(text) : MatchAt(atoms, 1, text, i) # -1}
  IN  IF starts = {} THEN NoMatch
      ELSE LET i == CHOOSE j \in starts : \A l \in starts : j <= l
           IN  [index |-> i, end |-> MatchAt(atoms, 1, text, i)]

\* One call regex.exec(docText) of a global pattern whose lastIndex is
\* lastIndex: the leftmost match that starts at lastIndex or later, or
\* NoMatch.  The caller's lastIndex becomes the match's end, or 0.
exec(atoms, text, lastIndex) ==
  LET starts == {i \in lastIndex..Len(text) : MatchAt(atoms, 1, text, i) # -1}
  IN  IF starts = {} THEN NoMatch
      ELSE LET i == CHOOSE j \in starts : \A l \in starts : j <= l
           IN  [index |-> i, end |-> MatchAt(atoms, 1, text, i)]

\* The while loop over regex.exec(docText) of a global pattern, from
\* lastIndex: the matches in the order exec returns them.  exec sets
\* lastIndex to the end of the match it returns, so after an empty match the
\* next call returns the same match again, for ever: the sequence then ends
\* with that empty match, and ExecHangs says so.
RECURSIVE ExecLoop(_, _, _)
ExecLoop(atoms, text, lastIndex) ==
  LET starts == {i \in lastIndex..Len(text) : MatchAt(atoms, 1, text, i) # -1}
  IN  IF starts = {} THEN <<>>
      ELSE LET i == CHOOSE j \in starts : \A l \in starts : j <= l
               e == MatchAt(atoms, 1, text, i)
           IN  IF e = i THEN <<[index |-> i, end |-> e]>>
               ELSE <<[index |-> i, end |-> e]>> \o ExecLoop(atoms, text, e)

ExecHangs(matches) == \E n \in 1..Len(matches) : matches[n].index = matches[n].end

\* doc.positionAt(offset)
positionAt(text, offset) ==
  LET before == {i \in 1..offset : text[i] = NL}
      lineStart == IF before = {} THEN 0
                   ELSE CHOOSE i \in before : \A j \in before : j <= i
  IN  [line |-> Cardinality(before), character |-> offset - lineStart]

\* The severity the CodespellDiagnostic constructor passes on.
Severity(typo) ==
  IF "severity" \in DOMAIN typo THEN typo.severity
  ELSE IF "isCommon" \in DOMAIN typo /\ typo.isCommon = FALSE THEN "Information"
  ELSE "Warning"

\* new CodespellDiagnostic(range, typo, match)
CodespellDiagnostic(range, typo) ==
  [range |-> range, message |-> typo.info, severity |-> Severity(typo),
   typo |-> typo, code |-> CODE_SPELL_MENTION, token |-> typo.token,
   suggestions |-> typo.suggestions]

\* The matches of one typo's token in docText.
TypoMatches(docText, typo) ==
  ExecLoop(RegExpAtoms(escapeRegExp(typo.token)), docText, 0)

\* The diagnostics that the body of typos.forEach pushes for one typo.
TypoDiagnostics(docText, typo) ==
  LET matches == TypoMatches(docText, typo)
  IN  [n \in 1..Len(matches) |->
         CodespellDiagnostic(
           [start |-> positionAt(docText, matches[n].index),
            end   |-> positionAt(docText, matches[n].end)], typo)]

\* The diagnostics array after typos.forEach.
RECURSIVE ResolveRanges(_, _)
ResolveRanges(docText, typos) ==
  IF typos = <<>> THEN <<>>
  ELSE TypoDiagnostics(docText, Head(typos)) \o ResolveRanges(docText, Tail(typos))

\* Whether the loop of some typo never ends.
RefreshHangs(docText, typos) ==
  \E n \in 1..Len(typos) : ExecHangs(TypoMatches(docText, typos[n]))

(***************************************************************************)
(* out/chat.js: the typo source adapter                                    *)
(***************************************************************************)

\* A Typo as the prompt of getTypos asks for it.
Typo(token, info) == [token |-> token, info |-> info, suggestions |-> <<>>]

TypoB == Typo(<<"b">>, "fix b")

\* The typo lists a reply may carry.
TypoLists == {<< >>, <<TypoB>>}

\* What the chat completion does with one request: it rejects, or it
\* answers with a text that holds a fenced block or none, whose body is
\* JSON for a typo list or is not JSON.
Replies ==
  [rejects : {TRUE}, fenced : {FALSE}, parses : {FALSE}, value : {<< >>}]
    \cup [rejects : {FALSE}, fenced : {FALSE}, parses : {FALSE}, value : {<< >>}]
    \cup [rejects : {FALSE}, fenced : {TRUE}, parses : {FALSE}, value : {<< >>}]
    \cup [rejects : {FALSE}, fenced : {TRUE}, parses : {TRUE}, value : TypoLists]

Null == [null |-> TRUE]

\* getCodeBlock(text): the body of the first fenced block, or null.
getCodeBlock(reply) ==
  IF reply.fenced THEN [null |-> FALSE, parses |-> reply.parses, value |-> reply.value]
  ELSE Null

\* getTypos(code), given what the completion does: the array it resolves
\* to, or threw when the awaited prompt rejects or JSON.parse throws.
getTypos(reply) ==
  IF reply.rejects THEN [threw |-> TRUE, value |-> << >>]
  ELSE LET codeBlock == getCodeBlock(reply)
       IN  IF ~codeBlock.null
           THEN IF codeBlock.parses THEN [threw |-> FALSE, value |-> codeBlock.value]
                ELSE [threw |-> TRUE, value |-> << >>]
           ELSE [threw |-> FALSE, value |-> << >>]

(***************************************************************************)
(* Maps keyed by document identity (Map, DiagnosticCollection).            *)
(***************************************************************************)

EmptyMap == [k \in {} |-> k]
MapHas(m, k) == k \in DOMAIN m
MapSet(m, k, v) == [j \in DOMAIN m \cup {k} |-> IF j = k THEN v ELSE m[j]]
MapDelete(m, k) == [j \in DOMAIN m \ {k} |-> m[j]]

(***************************************************************************)
(* spellcheck.ts: the typo store and the analysis of a save                *)
(***************************************************************************)

\* spellCheck(document, differences), when the adapter call it made ends
\* with result.  Its source is not among the files modelled here; this is
\* the design's description of it: on success the document's entry is
\* replaced, a failure is caught and leaves the store as it is.
spellCheck(store, document, result) ==
  IF result.threw THEN store ELSE MapSet(store, document, result.value)

(***************************************************************************)
(* The diagnostics module: the lifecycle controller                        *)
(***************************************************************************)

Docs == {"d1", "d2"}
Undefined == "undefined"

T0 == <<"a", NL>>
T1 == <<"a", NL, "b", NL>>
\* The texts a document may hold.
Texts == {T0, T1}

\* Bound: the save handlers that reach the await in one run.
MaxSaves == 2

VARIABLES
  text,                 \* document -> its current full text (getText())
  open,                 \* document -> whether the host has it open
  activeTextEditor,     \* the document of window.activeTextEditor, or Undefined
  DocumentsToTypos,     \* the typo store: Map document -> typo list
  codespellDiagnostics, \* the diagnostic collection: Map document -> diagnostics
  lastSavedContent,     \* Map document -> text captured as the diff baseline
  inflight,             \* the save handlers suspended at await spellCheck, in
                        \*   the order of their saves; overtaken is history:
                        \*   a later save of the document was applied already
  saveCount,            \* how many save handlers have reached the await
  captured,             \* history: Map document -> the text at its latest
                        \*   save, or else at its first focus, and which (by)
  before, after, added, \* the arguments and result of a findDifferences call
  loopDoc,              \* refreshDiagnostics: its argument doc, or Undefined
  loopTypo,             \*   the index of the typo that typos.forEach is at
  loopLastIndex,        \*   regex.lastIndex of that typo's pattern
  loopDiagnostics,      \*   the diagnostics array pushed so far
  loopPc                \*   where the call is: start, exec, set, returned

lifecycleVars == <<text, open, activeTextEditor, DocumentsToTypos,
                   codespellDiagnostics, lastSavedContent, inflight,
                   saveCount, captured>>
diffVars == <<before, after, added>>
refreshVars == <<loopDoc, loopTypo, loopLastIndex, loopDiagnostics, loopPc>>
vars == <<lifecycleVars, diffVars, refreshVars>>

\* No stepwise call of refreshDiagnostics is under way.
RefreshIdle ==
  /\ loopDoc = Undefined
  /\ loopTypo = 1
  /\ loopLastIndex = 0
  /\ loopDiagnostics = << >>
  /\ loopPc = "returned"

\* refreshDiagnostics that adds to the entry what it resolves.
refreshDiagnosticsMerging(doc, texts, store, collection) ==
  IF ~MapHas(store, doc) THEN collection
  ELSE MapSet(collection, doc,
              (IF MapHas(collection, doc) THEN collection[doc] ELSE << >>)
                \o ResolveRanges(texts[doc], store[doc]))

\* refreshDiagnostics that takes an absent typo list for an empty one.
refreshDiagnosticsOfNone(doc, texts, store, collection) ==
  MapSet(collection, doc,
         ResolveRanges(texts[doc], IF MapHas(store, doc) THEN store[doc] ELSE << >>))

\* refreshDiagnostics(doc): the diagnostic collection afterwards, given the
\* documents' texts, the typo store and the collection before.
refreshDiagnostics(doc, texts, store, collection) ==
  IF ~MapHas(store, doc) THEN collection
  ELSE MapSet(collection, doc, ResolveRanges(texts[doc], store[doc]))

\* lastSavedContent.get(documentUri) || ""
previousContent(d) ==
  IF MapHas(lastSavedContent, d) THEN lastSavedContent[d] ELSE << >>

\* subscribeDiagnosticsToDocumentChanges: the state once it has returned.
Init ==
  /\ text \in [Docs -> Texts]
  /\ open = [d \in Docs |-> TRUE]
  /\ activeTextEditor \in Docs \cup {Undefined}
  /\ DocumentsToTypos = EmptyMap
  /\ codespellDiagnostics =
       IF activeTextEditor # Undefined
       THEN refreshDiagnostics(activeTextEditor, text, DocumentsToTypos, EmptyMap)
       ELSE EmptyMap
  /\ lastSavedContent =
       IF activeTextEditor # Undefined
       THEN MapSet(EmptyMap, activeTextEditor, text[activeTextEditor])
       ELSE EmptyMap
  /\ inflight = << >>
  /\ saveCount = 0
  /\ captured =
       IF activeTextEditor # Undefined
       THEN MapSet(EmptyMap, activeTextEditor,
                   [by |-> "construction", text |-> text[activeTextEditor]])
       ELSE EmptyMap
  /\ before = << >> /\ after = << >> /\ added = << >>
  /\ RefreshIdle

\* The save handler that returns when nothing was added, the snapshot left
\* as it was.
SaveBeginKeepsSnapshot(d) ==
  /\ open[d]
  /\ LET currentContent == text[d]
         differences == findDifferences(previousContent(d), currentContent)
     IN  IF differences # << >>
         THEN /\ saveCount < MaxSaves
              /\ inflight' = Append(inflight,
                   [document |-> d, currentContent |-> currentContent,
                    overtaken |-> FALSE])
              /\ saveCount' = saveCount + 1
              /\ UNCHANGED lastSavedContent
         ELSE UNCHANGED <<lastSavedContent, inflight, saveCount>>
  /\ captured' = MapSet(captured, d, [by |-> "save", text |-> text[d]])
  /\ UNCHANGED <<text, open, activeTextEditor, DocumentsToTypos,
                 codespellDiagnostics, diffVars, refreshVars>>

\* The save handler that updates the snapshot before the await.
SaveBeginSnapshotsFirst(d) ==
  /\ open[d]
  /\ LET currentContent == text[d]
         differences == findDifferences(previousContent(d), currentContent)
     IN  /\ lastSavedContent' = MapSet(lastSavedContent, d, currentContent)
         /\ IF differences # << >>
            THEN /\ saveCount < MaxSaves
                 /\ inflight' = Append(inflight,
                      [document |-> d, currentContent |-> currentContent,
                       overtaken |-> FALSE])
                 /\ saveCount' = saveCount + 1
            ELSE UNCHANGED <<inflight, saveCount>>
  /\ captured' = MapSet(captured, d, [by |-> "save", text |-> text[d]])
  /\ UNCHANGED <<text, open, activeTextEditor, DocumentsToTypos,
                 codespellDiagnostics, diffVars, refreshVars>>

\* onDidSaveTextDocument, up to the await (or to the end when nothing was
\* added).
SaveBegin(d) ==
  /\ open[d]
  /\ LET currentContent == text[d]
         differences == findDifferences(previousContent(d), currentContent)
     IN  IF differences # << >>
         THEN /\ saveCount < MaxSaves
              /\ inflight' = Append(inflight,
                   [document |-> d, currentContent |-> currentContent,
                    overtaken |-> FALSE])
              /\ saveCount' = saveCount + 1
              /\ UNCHANGED lastSavedContent
         ELSE /\ lastSavedContent' = MapSet(lastSavedContent, d, currentContent)
              /\ UNCHANGED <<inflight, saveCount>>
  /\ captured' = MapSet(captured, d, [by |-> "save", text |-> text[d]])
  /\ UNCHANGED <<text, open, activeTextEditor, DocumentsToTypos,
                 codespellDiagnostics, diffVars, refreshVars>>

\* The handlers still suspended once the n-th has resumed; its result was
\* applied to the typo store or not.  The earlier saves of the same document
\* are overtaken when it was.
Resumed(n, applied) ==
  [i \in 1..(Len(inflight) - 1) |->
     IF i < n
     THEN [inflight[i] EXCEPT !.overtaken =
             @ \/ (applied /\ inflight[i].document = inflight[n].document)]
     ELSE inflight[i + 1]]

\* onDidSaveTextDocument, from the await on: the adapter call of the n-th
\* suspended handler ends as reply says.
SaveResume(n, reply) ==
  /\ n \in 1..Len(inflight)
  /\ LET h == inflight[n]
         store == spellCheck(DocumentsToTypos, h.document, getTypos(reply))
     IN  /\ ~(MapHas(store, h.document)
               /\ RefreshHangs(text[h.document], store[h.document]))
         /\ DocumentsToTypos' = store
         /\ codespellDiagnostics' =
              refreshDiagnostics(h.document, text, store, codespellDiagnostics)
         /\ lastSavedContent' = MapSet(lastSavedContent, h.document, h.currentContent)
  /\ inflight' = Resumed(n, ~getTypos(reply).threw)
  /\ UNCHANGED <<text, open, activeTextEditor, saveCount, captured, diffVars, refreshVars>>

\* onDidChangeTextDocument: document d now holds the text t.
Edit(d, t) ==
  /\ open[d]
  /\ t # text[d]
  /\ text' = [text EXCEPT ![d] = t]
  /\ codespellDiagnostics' =
       IF activeTextEditor # Undefined
       THEN refreshDiagnostics(activeTextEditor, text', DocumentsToTypos,
                               codespellDiagnostics)
       ELSE codespellDiagnostics
  /\ UNCHANGED <<open, activeTextEditor, DocumentsToTypos, lastSavedContent,
                 inflight, saveCount, captured, diffVars, refreshVars>>

\* onDidChangeActiveTextEditor(editor): e is editor's document, or Undefined.
ChangeActiveTextEditor(e) ==
  /\ e # activeTextEditor
  /\ e # Undefined => open[e]
  /\ activeTextEditor' = e
  /\ codespellDiagnostics' =
       IF e # Undefined
       THEN refreshDiagnostics(e, text, DocumentsToTypos, codespellDiagnostics)
       ELSE codespellDiagnostics
  /\ captured' = IF e # Undefined /\ ~MapHas(captured, e)
                 THEN MapSet(captured, e, [by |-> "focus", text |-> text[e]])
                 ELSE captured
  /\ UNCHANGED <<text, open, DocumentsToTypos, lastSavedContent, inflight,
                 saveCount, diffVars, refreshVars>>

\* onDidCloseTextDocument(doc): the host closes a document no editor shows.
Close(d) ==
  /\ open[d]
  /\ activeTextEditor # d
  /\ open' = [open EXCEPT ![d] = FALSE]
  /\ codespellDiagnostics' = MapDelete(codespellDiagnostics, d)
  /\ UNCHANGED <<text, activeTextEditor, DocumentsToTypos, lastSavedContent,
                 inflight, saveCount, captured, diffVars, refreshVars>>

\* The host opens a closed document again; no handler is subscribed to it.
Open(d) ==
  /\ ~open[d]
  /\ open' = [open EXCEPT ![d] = TRUE]
  /\ UNCHANGED <<text, activeTextEditor, DocumentsToTypos, codespellDiagnostics,
                 lastSavedContent, inflight, saveCount, captured, diffVars, refreshVars>>

Next ==
  \/ \E d \in Docs : SaveBegin(d)
  \/ \E n \in 1..Len(inflight), reply \in Replies : SaveResume(n, reply)
  \/ \E d \in Docs, t \in Texts : Edit(d, t)
  \/ \E e \in Docs \cup {Undefined} : ChangeActiveTextEditor(e)
  \/ \E d \in Docs : Close(d)
  \/ \E d \in Docs : Open(d)

Spec == Init /\ [][Next]_vars

(***************************************************************************)
(* findDifferences on its own: the arguments are drawn from the texts of   *)
(* at most MaxLines lines, and the call is the only step.                  *)
(***************************************************************************)

MaxLines == 2

\* The lines of the texts findDifferences is tried on, with their terminator.
DiffLineTokens == {<<"a", NL>>, <<"b", NL>>, <<NL>>}

RECURSIVE Concat(_)
Concat(parts) == IF parts = << >> THEN << >> ELSE Head(parts) \o Concat(Tail(parts))

\* Up to MaxLines terminated lines, then possibly a last line without its
\* terminator.
DiffTexts ==
  {Concat(ls) \o rest :
     ls \in UNION {[1..n -> DiffLineTokens] : n \in 0..MaxLines},
     rest \in {<< >>, <<"a">>}}

DiffInit ==
  /\ before \in DiffTexts
  /\ after \in DiffTexts
  /\ added = << >>
  /\ text = [d \in Docs |-> T0]
  /\ open = [d \in Docs |-> TRUE]
  /\ activeTextEditor = Undefined
  /\ DocumentsToTypos = EmptyMap
  /\ codespellDiagnostics = EmptyMap
  /\ lastSavedContent = EmptyMap
  /\ inflight = << >>
  /\ saveCount = 0
  /\ captured = EmptyMap
  /\ RefreshIdle

\* One call findDifferences(before, after); added holds its result.
FindDifferences ==
  /\ added = << >>
  /\ added' = <<findDifferences(before, after)>>
  /\ UNCHANGED <<before, after, lifecycleVars, refreshVars>>

DiffNext == FindDifferences

SpecDiff == DiffInit /\ [][DiffNext]_vars

(***************************************************************************)
(* refreshDiagnostics on its own, one call of regex.exec per step: the     *)
(* text of its document is any text of at most MaxTextLen characters, the  *)
(* document's typo list is absent, empty, one typo with any token of at    *)
(* most MaxTokenLen characters, or that typo followed by a second one.     *)
(***************************************************************************)

MaxTextLen == 4
MaxTokenLen == 2

\* Bound: how many empty matches a run is followed through.
MaxEmptyMatches == 2

\* A plain character, a pattern-special one, and the line terminator.
RefreshChars == {"a", ".", NL}

SeqsUpTo(S, n) == UNION {[1..k -> S] : k \in 0..n}

TypoA == Typo(<<"a">>, "fix a")

RefreshTypoLists ==
  {<< >>}
    \cup {<<Typo(t, "info")>> : t \in SeqsUpTo(RefreshChars, MaxTokenLen)}
    \cup {<<Typo(t, "info"), TypoA>> : t \in SeqsUpTo(RefreshChars, MaxTokenLen)}

RefreshInit ==
  /\ loopDoc = "d1"
  /\ loopTypo = 1
  /\ loopLastIndex = 0
  /\ loopDiagnostics = << >>
  /\ loopPc = "start"
  /\ \E t \in SeqsUpTo(RefreshChars, MaxTextLen) :
       text = [d \in Docs |-> IF d = "d1" THEN t ELSE T0]
  /\ \/ DocumentsToTypos = EmptyMap
     \/ \E l \in RefreshTypoLists : DocumentsToTypos = MapSet(EmptyMap, "d1", l)
  /\ open = [d \in Docs |-> TRUE]
  /\ activeTextEditor = Undefined
  /\ codespellDiagnostics = EmptyMap
  /\ lastSavedContent = EmptyMap
  /\ inflight = << >>
  /\ saveCount = 0
  /\ captured = EmptyMap
  /\ before = << >> /\ after = << >> /\ added = << >>

\* const typos = DocumentsToTypos.getTypos(doc), once it is known to be
\* there; const docText = doc.getText()
loopTypos == DocumentsToTypos[loopDoc]
loopText == text[loopDoc]

\* if (!typos) { return; }
ReturnEarly ==
  /\ loopPc = "start"
  /\ ~MapHas(DocumentsToTypos, loopDoc)
  /\ loopPc' = "returned"
  /\ UNCHANGED <<loopDoc, loopTypo, loopLastIndex, loopDiagnostics,
                 lifecycleVars, diffVars>>

\* const diagnostics = []; typos.forEach(...) is entered.
ForEachBegin ==
  /\ loopPc = "start"
  /\ MapHas(DocumentsToTypos, loopDoc)
  /\ loopPc' = "exec"
  /\ UNCHANGED <<loopDoc, loopTypo, loopLastIndex, loopDiagnostics,
                 lifecycleVars, diffVars>>

\* The match regex.exec finds next for the typo the loop is at.
NextMatch ==
  exec(RegExpAtoms(escapeRegExp(loopTypos[loopTypo].token)), loopText,
       loopLastIndex)

\* An iteration of the while loop: exec returns a match, a diagnostic with
\* its range is pushed.
ExecMatch ==
  /\ loopPc = "exec"
  /\ loopTypo <= Len(loopTypos)
  /\ NextMatch # NoMatch
  /\ Len(loopDiagnostics) < Len(loopTypos) * Len(loopText) + MaxEmptyMatches
  /\ loopDiagnostics' =
       Append(loopDiagnostics,
              CodespellDiagnostic(
                [start |-> positionAt(loopText, NextMatch.index),
                 end   |-> positionAt(loopText, NextMatch.end)],
                loopTypos[loopTypo]))
  /\ loopLastIndex' = NextMatch.end
  /\ UNCHANGED <<loopDoc, loopTypo, loopPc, lifecycleVars, diffVars>>

\* exec returns null: the while loop ends, forEach goes to the next typo
\* and its new pattern.
ExecNull ==
  /\ loopPc = "exec"
  /\ loopTypo <= Len(loopTypos)
  /\ NextMatch = NoMatch
  /\ loopTypo' = loopTypo + 1
  /\ loopLastIndex' = 0
  /\ UNCHANGED <<loopDoc, loopDiagnostics, loopPc, lifecycleVars, diffVars>>

\* codespellDiagnostics.set(doc.uri, diagnostics)
SetDiagnostics ==
  /\ loopPc = "exec"
  /\ loopTypo > Len(loopTypos)
  /\ loopPc' = "set"
  /\ codespellDiagnostics' = MapSet(codespellDiagnostics, loopDoc, loopDiagnostics)
  /\ UNCHANGED <<text, open, activeTextEditor, DocumentsToTypos,
                 lastSavedContent, inflight, saveCount, captured,
                 loopDoc, loopTypo, loopLastIndex, loopDiagnostics, diffVars>>

RefreshNext ==
  \/ ReturnEarly
  \/ ForEachBegin
  \/ ExecMatch
  \/ ExecNull
  \/ SetDiagnostics

SpecRefresh == RefreshInit /\ [][RefreshNext]_vars

(***************************************************************************)
(* Properties                                                              *)
(***************************************************************************)

\* Whether document d has the same entry, or none, in map m after the step
\* as before it.
EntryUnchanged(m, mNext, d) ==
  /\ MapHas(mNext, d) = MapHas(m, d)
  /\ MapHas(m, d) => mNext[d] = m[d]

\* Whether a save handler of document d is suspended at the await.
Pending(d) == \E n \in 1..Len(inflight) : inflight[n].document = d

C2_BaselineIsPrecedingSave ==
  /\ [][\A d \in Docs :
          (SaveBegin(d) /\ MapHas(captured, d)
             /\ captured[d].by \in {"save", "construction"})
            => previousContent(d) = captured[d].text]_vars
  /\ [](\A d \in Docs :
          (~Pending(d) /\ MapHas(captured, d) /\ captured[d].by = "save")
            => /\ MapHas(lastSavedContent, d)
               /\ lastSavedContent[d] = captured[d].text)

\* C3: while a document is closed the diagnostic collection shows nothing
\* for it (no entry; an entry without diagnostics is counted as none).
C3_ClosedHasNoDiagnostics ==
  \A d \in Docs :
    ~open[d] => (~MapHas(codespellDiagnostics, d) \/ codespellDiagnostics[d] = << >>)

\* C4: right after the close of a document neither the typo store, nor the
\* diagnostic collection, nor the snapshots hold an entry for it.
C4_CloseRemovesAllEntries ==
  [][\A d \in Docs :
       Close(d) => /\ ~MapHas(DocumentsToTypos', d)
                   /\ ~MapHas(codespellDiagnostics', d)
                   /\ ~MapHas(lastSavedContent', d)]_vars

\* The adapter call failed: the request rejected, the response holds no
\* fenced block (malformed), or its block does not parse.
AdapterFailed(reply) == reply.rejects \/ ~reply.fenced \/ ~reply.parses

\* C5: a save whose adapter call fails leaves the document's prior typo
\* store entry as it was.
C5_FailureKeepsPriorTypos ==
  [][\A n \in 1..Len(inflight), reply \in Replies :
       (SaveResume(n, reply) /\ AdapterFailed(reply)
          /\ MapHas(DocumentsToTypos, inflight[n].document))
         => EntryUnchanged(DocumentsToTypos, DocumentsToTypos', inflight[n].document)]_vars

\* C6: an edit starts no analysis and leaves the typo store and the
\* snapshots alone; all it does is recompute the edited document's
\* diagnostics from its new text and its typo store entry.
C6_EditOnlyRefreshesEdited ==
  [][\A d \in Docs, t \in Texts :
       Edit(d, t) =>
         /\ inflight' = inflight
         /\ DocumentsToTypos' = DocumentsToTypos
         /\ lastSavedContent' = lastSavedContent
         /\ codespellDiagnostics' =
              refreshDiagnostics(d, text', DocumentsToTypos, codespellDiagnostics)]_vars

\* C7: an edit of a document that has a save suspended at the await is
\* handled at once: the document's diagnostics are recomputed from the typo
\* store as it is, and the suspended handlers stay suspended.
C7_EditWhilePendingRefreshes ==
  [][\A d \in Docs, t \in Texts :
       (Edit(d, t) /\ Pending(d)) =>
         /\ Pending(d)'
         /\ EntryUnchanged(
              refreshDiagnostics(d, text', DocumentsToTypos, codespellDiagnostics),
              codespellDiagnostics', d)]_vars

\* A step that is an event carrying the identity of document a.
EventOf(a) ==
  \/ SaveBegin(a)
  \/ \E n \in 1..Len(inflight), reply \in Replies :
       inflight[n].document = a /\ SaveResume(n, reply)
  \/ \E t \in Texts : Edit(a, t)
  \/ ChangeActiveTextEditor(a)
  \/ Close(a)

\* C8: an event of document a leaves the typo store, diagnostic and
\* snapshot entries of every other document as they were, and an edit of a
\* refreshes the diagnostics of a.
C8_DocumentsIndependent ==
  [][\A a \in Docs :
       /\ EventOf(a) =>
            \A b \in Docs \ {a} :
              /\ EntryUnchanged(DocumentsToTypos, DocumentsToTypos', b)
              /\ EntryUnchanged(codespellDiagnostics, codespellDiagnostics', b)
              /\ EntryUnchanged(lastSavedContent, lastSavedContent', b)
       /\ (\E t \in Texts : Edit(a, t)) =>
            EntryUnchanged(
              refreshDiagnostics(a, text', DocumentsToTypos, codespellDiagnostics),
              codespellDiagnostics', a)]_vars

\* C9: a document that becomes active while it has no snapshot gets its
\* text captured as the snapshot; so the first save of a document that had
\* the focus before diffs against the text it had when it got the focus.
C9_FocusCapturesBaseline ==
  /\ [][\A e \in Docs :
          (ChangeActiveTextEditor(e) /\ ~MapHas(lastSavedContent, e))
            => /\ MapHas(lastSavedContent', e)
               /\ lastSavedContent'[e] = text[e]]_vars
  /\ [][\A d \in Docs :
          (SaveBegin(d) /\ MapHas(captured, d)
             /\ captured[d].by \in {"focus", "construction"})
            => previousContent(d) = captured[d].text]_vars

\* Whether new is old with lines appended: old is empty or ends with a line
\* terminator, and new starts with old.
AppendsLines(old, new) ==
  /\ old = << >> \/ old[Len(old)] = NL
  /\ StartsWith(new, old)

\* The lines of new that follow old.
AppendedLines(old, new) ==
  LET toks == LineTokens(Slice(new, Len(old)))
  IN  [i \in 1..Len(toks) |-> TokenLine(toks[i])]

\* C10: when after is before with lines appended, findDifferences returns
\* exactly the appended lines, in order.
C10_ReturnsAppendedLines ==
  (added # << >> /\ AppendsLines(before, after))
    => added[1] = AppendedLines(before, after)

\* C11: findDifferences of a text against itself returns no block: the
\* header lines of the patch that start with "+" contribute nothing.
C11_SameTextNoDifferences ==
  (added # << >> /\ before = after) => added[1] = << >>

\* C11 witness: findDifferences was called on a non-empty text and itself.
C11_Witness ==
  added # << >> /\ before = after /\ Len(LineTokens(before)) = MaxLines

\* Whether new is old with one blank line (a line terminator alone) added.
AddsOneBlankLine(old, new) ==
  LET toks == LineTokens(old)
  IN  \E k \in 0..Len(toks) :
        LineTokens(new) = SubSeq(toks, 1, k) \o << <<NL>> >>
                            \o SubSeq(toks, k + 1, Len(toks))

\* C12: when after is before with a single blank line added, findDifferences
\* returns the empty sequence; and no block it ever returns is empty.
C12_BlankLineFilteredOut ==
  added # << >> =>
    /\ AddsOneBlankLine(before, after) => added[1] = << >>
    /\ \A i \in 1..Len(added[1]) : added[1][i] # << >>

\* The offset of a position of txt: the inverse of positionAt.
OffsetAt(txt, position) ==
  LET terminators == {i \in 1..Len(txt) : txt[i] = NL}
      lineStart == CHOOSE i \in terminators \cup {0} :
                     Cardinality({j \in terminators : j <= i}) = position.line
  IN  lineStart + position.character

\* The offsets at which a left-to-right non-overlapping scan of txt from
\* offset from finds token, character by character, in increasing order.
RECURSIVE LiteralScan(_, _, _)
LiteralScan(txt, token, from) ==
  LET hits == {i \in from..(Len(txt) - Len(token)) :
                 SubSeq(txt, i + 1, i + Len(token)) = token}
  IN  IF token = << >> \/ hits = {} THEN << >>
      ELSE LET i == CHOOSE j \in hits : \A l \in hits : j <= l
           IN  <<i>> \o LiteralScan(txt, token, i + Len(token))

\* The diagnostics of the finished call that belong to its k-th typo.
DiagnosticsOf(k) == SelectSeq(loopDiagnostics, LAMBDA d : d.typo = loopTypos[k])

\* C13: when refreshDiagnostics has run through, each typo has exactly one
\* diagnostic per occurrence of its token found by a left-to-right
\* non-overlapping scan of the text: as many diagnostics as occurrences (none
\* for none), each spanning the token's length at its occurrence, with
\* pairwise distinct ranges in increasing offset order.
C13_OneDiagnosticPerOccurrence ==
  loopPc = "set" =>
    /\ \A n \in 1..Len(loopDiagnostics) :
         \E k \in 1..Len(loopTypos) : loopDiagnostics[n].typo = loopTypos[k]
    /\ \A k \in 1..Len(loopTypos) :
         LET ds  == DiagnosticsOf(k)
             occ == LiteralScan(loopText, loopTypos[k].token, 0)
         IN  /\ Len(ds) = Len(occ)
             /\ \A n \in 1..Len(ds) :
                  /\ OffsetAt(loopText, ds[n].range.start) = occ[n]
                  /\ OffsetAt(loopText, ds[n].range.end)
                       = occ[n] + Len(loopTypos[k].token)
                  /\ \A m \in 1..(n - 1) :
                       /\ ds[m].range # ds[n].range
                       /\ OffsetAt(loopText, ds[m].range.start)
                            < OffsetAt(loopText, ds[n].range.start)

\* C13 witness: a finished call whose first typo has a token of two
\* characters that occurs twice, and whose second typo's token does not
\* occur.
C13_Witness ==
  /\ loopPc = "set"
  /\ Len(loopTypos) > 1
  /\ Len(loopTypos[1].token) > 1
  /\ Len(DiagnosticsOf(1)) > 1
  /\ LiteralScan(loopText, TypoA.token, 0) = << >>

\* Whether the token holds a character that is special in a pattern.
HasSpecial(token) == \E i \in 1..Len(token) : token[i] \in EscapedChars

\* C14: for a typo whose token holds pattern-special characters, every
\* matched range holds the token itself, and the set of the matched ranges
\* is the set of the ranges a literal scan for the token finds.
C14_EscapedTokenMatchesLiterally ==
  loopPc = "set" =>
    \A k \in 1..Len(loopTypos) :
      HasSpecial(loopTypos[k].token) =>
        LET ds  == DiagnosticsOf(k)
            tok == loopTypos[k].token
            occ == LiteralScan(loopText, tok, 0)
        IN  /\ \A n \in 1..Len(ds) :
                 SubSeq(loopText, OffsetAt(loopText, ds[n].range.start) + 1,
                        OffsetAt(loopText, ds[n].range.end)) = tok
            /\ {<<OffsetAt(loopText, ds[n].range.start),
                   OffsetAt(loopText, ds[n].range.end)>> : n \in 1..Len(ds)}
                 = {<<occ[n], occ[n] + Len(tok)>> : n \in 1..Len(occ)}

\* C14 witness: a finished call for the token "." then line terminator,
\* matched across a line boundary in a text that also holds an "a" followed
\* by a line terminator, which the unescaped pattern would match as well.
C14_Witness ==
  /\ loopPc = "set"
  /\ Len(loopTypos) > 0
  /\ loopTypos[1].token = <<".", NL>>
  /\ Len(DiagnosticsOf(1)) > 0
  /\ LiteralScan(loopText, <<"a", NL>>, 0) # << >>

\* A step that is a save of document d: the handler runs up to its await or
\* to its end, and the history has the save.
SaveOf(d) ==
  /\ captured' = MapSet(captured, d, [by |-> "save", text |-> text[d]])
  /\ SaveBegin(d)

\* C15: a save whose added lines are empty starts no adapter call and leaves
\* the typo store and the diagnostic collection as they were; all it does is
\* set the document's snapshot to the current text.
C15_EmptyDifferencesOnlySnapshot ==
  [][\A d \in Docs :
       (SaveOf(d) /\ findDifferences(previousContent(d), text[d]) = << >>)
         => /\ inflight' = inflight
            /\ DocumentsToTypos' = DocumentsToTypos
            /\ codespellDiagnostics' = codespellDiagnostics
            /\ lastSavedContent' = MapSet(lastSavedContent, d, text[d])
            /\ UNCHANGED <<text, open, activeTextEditor>>]_vars

\* C15 witness: a document was saved, no save has started an analysis, the
\* snapshot is the document's text, and its diagnostics are as its store.
C15_Witness ==
  /\ saveCount = 0
  /\ \E d \in Docs :
       /\ MapHas(captured, d) /\ captured[d].by = "save"
       /\ text[d] = T0 /\ lastSavedContent[d] = T0
       /\ MapHas(codespellDiagnostics, d) = MapHas(DocumentsToTypos, d)

\* C16: a save with added lines leaves the snapshot alone until its
\* analysis has ended; the step that then resumes it puts the result into
\* the typo store, refreshes the diagnostics from the store so updated, and
\* sets the snapshot to the text that was saved.
C16_ResultAppliedBeforeSnapshot ==
  /\ [][\A d \in Docs :
          (SaveOf(d) /\ findDifferences(previousContent(d), text[d]) # << >>)
            => /\ lastSavedContent' = lastSavedContent
               /\ inflight' # inflight]_vars
  /\ [][\A n \in 1..Len(inflight), reply \in Replies :
          SaveResume(n, reply) =>
            LET doc == inflight[n].document
            IN  /\ ~AdapterFailed(reply) => DocumentsToTypos'[doc] = reply.value
                /\ MapHas(DocumentsToTypos', doc) =>
                     codespellDiagnostics'[doc]
                       = ResolveRanges(text[doc], DocumentsToTypos'[doc])
                /\ lastSavedContent'[doc] = inflight[n].currentContent]_vars

\* C16 witness: a save's analysis has ended with a typo list that is now
\* the document's store entry, the diagnostics show it, and the snapshot is
\* the saved text.
C16_Witness ==
  /\ inflight = << >>
  /\ saveCount > 0
  /\ \E d \in Docs :
       /\ MapHas(DocumentsToTypos, d) /\ DocumentsToTypos[d] = <<TypoB>>
       /\ MapHas(codespellDiagnostics, d) /\ codespellDiagnostics[d] # << >>
       /\ captured[d].by = "save"
       /\ lastSavedContent[d] = captured[d].text

\* A step that refreshes the diagnostics of document x.
Refreshes(x) ==
  \/ \E n \in 1..Len(inflight), reply \in Replies :
       inflight[n].document = x /\ SaveResume(n, reply)
  \/ \E d \in Docs, t \in Texts : activeTextEditor = x /\ Edit(d, t)
  \/ ChangeActiveTextEditor(x)

\* Whether the position lies within txt.
HasPosition(txt, position) ==
  /\ position.line <= Cardinality({i \in 1..Len(txt) : txt[i] = NL})
  /\ OffsetAt(txt, position) <= Len(txt)

\* Whether the diagnostic marks an occurrence of the token of typo in txt.
Marks(diagnostic, typo, txt) ==
  /\ diagnostic.code = "codespell"
  /\ diagnostic.message = typo.info
  /\ HasPosition(txt, diagnostic.range.start)
  /\ HasPosition(txt, diagnostic.range.end)
  /\ SubSeq(txt, OffsetAt(txt, diagnostic.range.start) + 1,
            OffsetAt(txt, diagnostic.range.end)) = typo.token

\* How many occurrences of the tokens of typos a literal scan of txt finds.
RECURSIVE Occurrences(_, _)
Occurrences(txt, typos) ==
  IF typos = << >> THEN 0
  ELSE Len(LiteralScan(txt, Head(typos).token, 0)) + Occurrences(txt, Tail(typos))

\* C17: a refresh of a document that has a typo store entry replaces the
\* document's diagnostics with those of its text and typo list now: every
\* diagnostic has the code "codespell", the info of a typo of the list as
\* its message and a range that holds that typo's token in the text, and
\* there are as many as the tokens occur, so none is left from before.
C17_RefreshReplacesEntry ==
  [][\A x \in Docs :
       (Refreshes(x) /\ MapHas(DocumentsToTypos', x))
         => /\ MapHas(codespellDiagnostics', x)
            /\ \A i \in 1..Len(codespellDiagnostics'[x]) :
                 \E k \in 1..Len(DocumentsToTypos'[x]) :
                   Marks(codespellDiagnostics'[x][i], DocumentsToTypos'[x][k],
                         text'[x])
            /\ Len(codespellDiagnostics'[x])
                 = Occurrences(text'[x], DocumentsToTypos'[x])]_vars

\* C17 witness: the document was saved with the token in its text and has
\* the typo in its store entry; its text now is without the token, and its
\* diagnostics are there and empty.
C17_Witness ==
  \E d \in Docs :
    /\ activeTextEditor = d
    /\ MapHas(DocumentsToTypos, d) /\ DocumentsToTypos[d] = <<TypoB>>
    /\ MapHas(captured, d) /\ captured[d].text = T1
    /\ text[d] = T0
    /\ MapHas(codespellDiagnostics, d) /\ codespellDiagnostics[d] = << >>

\* C18: a document without a typo store entry has no diagnostics entry,
\* and a refresh of it writes nothing to the diagnostic collection.
C18_AbsentTyposNoDiagnostics ==
  /\ [](\A d \in Docs :
          ~MapHas(DocumentsToTypos, d) => ~MapHas(codespellDiagnostics, d))
  /\ [][\A x \in Docs :
          (Refreshes(x) /\ ~MapHas(DocumentsToTypos', x))
            => codespellDiagnostics' = codespellDiagnostics]_vars

\* C18 witness: a document without a typo store entry got the focus, was
\* edited while it had it, and has no diagnostics entry.
C18_Witness ==
  \E d \in Docs :
    /\ activeTextEditor = d
    /\ ~MapHas(DocumentsToTypos, d)
    /\ MapHas(captured, d) /\ captured[d].by = "focus"
    /\ text[d] # captured[d].text
    /\ ~MapHas(codespellDiagnostics, d)

\* C19: every iteration of the match loop of refreshDiagnostics that finds a
\* match moves the pattern's lastIndex forward in the text, so the loop of
\* each typo ends.
C19_MatchLoopProgresses ==
  [][ExecMatch => loopLastIndex' > loopLastIndex]_vars

\* The stepwise call and the one-step refresh of the lifecycle agree.
StepwiseAgrees ==
  loopPc = "set" =>
    /\ ~RefreshHangs(loopText, loopTypos)
    /\ codespellDiagnostics
         = refreshDiagnostics(loopDoc, text, DocumentsToTypos, EmptyMap)

=============================================================================
